---- MODULE Spec2Model ----
(***************************************************************************)
(* PyEnvy: a model of the background task supervisor (workers.py), the     *)
(* managed-path registry (config.py), the environment lifecycle, package   *)
(* and discovery operations (venv_manager.py) and the refresh merge        *)
(* (pyenvy.py).                                                            *)
(*                                                                         *)
(* Paths are sequences of tokens: a token is either the separator "/" or   *)
(* one path component, so "/r/a" is <<"/", "r", "/", "a">>.                *)
(***************************************************************************)
EXTENDS Integers, Sequences, FiniteSets, TLC

\* ------------------------------------------------------------------ bounds

\* The number of tasks submitted to the TaskManager in one run of the model.
MaxTasks == 3

\* The largest scan_max_depth of the discovery.
MaxScanDepth == 2

\* The largest number of registered paths in the merge.
MaxManaged == 2

\* The largest number of packages selected for one removal or upgrade.
MaxBulk == 3

\* The largest number of tasks the main window submits.
MaxWindowTasks == 4

\* The largest number of tasks submitted where every behaviour is followed to
\* its end.
MaxLiveTasks == 2

VARIABLES
    \* workers.py
    tasks,          \* TaskManager._tasks: task id -> task handle (NoTask: no entry)
    thread,         \* each BackgroundTask: its id, callbacks, thread state, signal
    events,         \* the control thread's queue of emitted, undelivered signals
    status,         \* what the status callback was last told
    cblog,          \* the terminal callbacks invoked so far, in order
    \* config.py
    managed_venvs,  \* config["managed_venvs"]
    cfgOp,          \* the last registry call and its argument
    \* venv_manager.py
    fs,             \* the file system: the components of a path -> the node there
    call,           \* the last lifecycle or package operation called and how it ended
    \* pyenvy.py: the refresh
    scan_directories,  \* config["scan_directories"]
    scan_max_depth,    \* config["scan_max_depth"]
    listing,        \* the order in which the file system lists a directory
    loaded,         \* do_refresh: what load_managed_venvs returned
    discovered,     \* do_refresh: what discover_venvs returned
    entered,        \* the directories os.walk yielded, each with its base_dir
    all_venvs,      \* PyEnvyApp.all_venvs
    \* pyenvy.py: bulk removal and upgrade
    bulk,           \* one do_remove or do_upgrade: its names, how far it is, how it ended
    \* venv_manager.py: interpreter detection
    interpreters,   \* the interpreter files: where each resolves to, how its probe ends
    python_installs,\* CreateVenvDialog.python_installs: what detect returned
    \* pyenvy.py: the main window
    selected_venv,  \* PyEnvyApp.selected_venv: the path of the selection (None: <<>>)
    act_delete,     \* act_delete.isEnabled()
    all_packages,   \* PyEnvyApp.all_packages
    job             \* each BackgroundTask's func and args: the operation and its path

supVars == <<tasks, thread, events, status, cblog>>
cfgVars == <<managed_venvs, cfgOp>>
fsVars == <<fs, call>>
scanVars == <<scan_directories, scan_max_depth, listing, loaded, discovered, entered,
              all_venvs>>
detVars == <<interpreters, python_installs>>
winVars == <<selected_venv, act_delete, all_packages, job>>
appVars == <<bulk, interpreters, python_installs, selected_venv, act_delete,
             all_packages, job>>
vars == <<tasks, thread, events, status, cblog, managed_venvs, cfgOp, fs, call,
          scan_directories, scan_max_depth, listing, loaded, discovered, entered,
          all_venvs, bulk, interpreters, python_installs, selected_venv, act_delete,
          all_packages, job>>

\* ------------------------------------------------------------ sequences

Range(s) == {s[i] : i \in 1..Len(s)}

Last(s) == s[Len(s)]

\* The sequences without repetition over S (every order of every subset).
RECURSIVE ListsNoDup(_)
ListsNoDup(S) ==
    {<<>>} \cup UNION {{<<x>> \o l : l \in ListsNoDup(S \ {x})} : x \in S}

\* ---------------------------------------------------------------- paths

SEP == "/"

\* os.path.isabs
isabs(p) == Len(p) > 0 /\ p[1] = SEP

\* os.path.join(a, b) of posixpath
join(a, b) ==
    IF isabs(b) THEN b
    ELSE IF a = <<>> \/ Last(a) = SEP THEN a \o b
    ELSE a \o <<SEP>> \o b

\* path.split("/") without its empty strings: the components of a path
split_comps(p) == SelectSeq(p, LAMBDA t : t # SEP)

\* The loop of posixpath.normpath over the components of an absolute path:
\* "." is dropped and ".." removes the component before it.
RECURSIVE norm_comps(_, _)
norm_comps(comps, acc) ==
    IF comps = <<>> THEN acc
    ELSE LET c == Head(comps) IN
         IF c = "." THEN norm_comps(Tail(comps), acc)
         ELSE IF c = ".."
              THEN norm_comps(Tail(comps),
                              IF acc = <<>> THEN acc ELSE SubSeq(acc, 1, Len(acc) - 1))
              ELSE norm_comps(Tail(comps), Append(acc, c))

\* "/".join(comps) behind the initial slash
RECURSIVE from_comps(_)
from_comps(comps) ==
    IF comps = <<>> THEN <<>> ELSE <<SEP, Head(comps)>> \o from_comps(Tail(comps))

\* posixpath.normpath of an absolute path
normpath(p) ==
    LET cs == norm_comps(split_comps(p), <<>>) IN
    IF cs = <<>> THEN <<SEP>> ELSE from_comps(cs)

\* The process's working directory.
Cwd == <<SEP, "r">>

\* os.path.abspath
abspath(p) == normpath(join(Cwd, p))

\* The symbolic links of the file system: /L is a link to the directory /r/a.
Symlinks == {[link |-> <<"L">>, target |-> <<"r", "a">>]}

\* The components of a path with the links on the way resolved, first to last.
RECURSIVE resolve_comps(_, _)
resolve_comps(done, rest) ==
    IF rest = <<>> THEN done
    ELSE LET here == Append(done, Head(rest))
             hit == {l \in Symlinks : l.link = here} IN
         IF hit = {} THEN resolve_comps(here, Tail(rest))
         ELSE resolve_comps((CHOOSE l \in hit : TRUE).target, Tail(rest))

\* os.path.realpath
realpath(p) ==
    LET cs == resolve_comps(<<>>, split_comps(abspath(p))) IN
    IF cs = <<>> THEN <<SEP>> ELSE from_comps(cs)

\* ---------------------------------------------------------- file system

\* A node of the file system: nothing, a directory, or a regular file with its
\* execute permission and its lines. fs maps the paths where something is.
Nothing == [kind |-> "none", x |-> FALSE, lines |-> <<>>]

Directory == [kind |-> "dir", x |-> TRUE, lines |-> <<>>]

RegularFile(x, lines) == [kind |-> "file", x |-> x, lines |-> lines]

\* The directories a model run can hold, by their components.
DirNodes ==
    { <<"r">>,
      <<"r", "a">>, <<"r", "a", "B">>, <<"r", "a", "B", "c">>, <<"r", "a", ".env">>,
      <<"r", ".venv">>, <<"r", ".git">>, <<"r", ".git", "a">>,
      <<"r", "node_modules">>, <<"r", ".hid">>, <<"r", "b">> }

\* Every path a node can be at: each directory, its pyvenv.cfg, bin and bin/python.
Universe ==
    DirNodes
    \cup {d \o <<"pyvenv.cfg">> : d \in DirNodes}
    \cup {d \o <<"bin">> : d \in DirNodes}
    \cup {d \o <<"bin", "python">> : d \in DirNodes}

IsPrefix(a, b) == Len(a) <= Len(b) /\ SubSeq(b, 1, Len(a)) = a

\* A pyvenv.cfg as python -m venv writes it, and one without any key = value line.
CfgWritten ==
    << <<"home", " ", "=", " ", "/usr/bin">>,
       <<"version", " ", "=", " ", "3.11.4">>,
       <<>> >>

CfgNoKeys == << <<"#", " ", "junk">>, <<>> >>

\* The node at a path of the file system f, symbolic links followed (os.stat).
stat_in(f, p) ==
    LET cs == resolve_comps(<<>>, split_comps(abspath(p))) IN
    IF cs = <<>> THEN Directory
    ELSE IF cs \in DOMAIN f THEN f[cs]
    ELSE Nothing

\* os.stat now.
stat(p) == stat_in(fs, p)

\* os.path.exists
exists(p) == stat(p).kind # "none"

\* os.path.isdir
isdir(p) == stat(p).kind = "dir"

\* os.path.isfile
isfile(p) == stat(p).kind = "file"

\* os.access(p, os.X_OK)
access_X_OK(p) == stat(p).kind # "none" /\ stat(p).x

\* os.path.islink
islink(p) == \E l \in Symlinks : l.link = split_comps(abspath(p))

\* os.path.basename: what follows the last separator.
basename(p) ==
    IF p = <<>> \/ Last(p) = SEP THEN "" ELSE Last(p)

\* The file system with the directory p and everything below it removed.
removed_tree(p) ==
    LET cs == resolve_comps(<<>>, split_comps(abspath(p))) IN
    [q \in {q \in DOMAIN fs : ~IsPrefix(cs, q)} |-> fs[q]]

\* ------------------------------------------------- venv_manager.py: cfg

\* str.strip of a line: its leading and trailing blanks dropped.
RECURSIVE lstrip(_)
lstrip(l) == IF l # <<>> /\ Head(l) = " " THEN lstrip(Tail(l)) ELSE l

RECURSIVE rstrip(_)
rstrip(l) ==
    IF l # <<>> /\ Last(l) = " " THEN rstrip(SubSeq(l, 1, Len(l) - 1)) ELSE l

strip(l) == rstrip(lstrip(l))

\* The index of the first "=" of a line, 0 when it has none.
first_eq(l) ==
    IF \E i \in 1..Len(l) : l[i] = "="
    THEN CHOOSE i \in 1..Len(l) : l[i] = "=" /\ \A j \in 1..(i - 1) : l[j] # "="
    ELSE 0

\* The loop of parse_pyvenv_cfg: the pairs of the lines, a later pair replacing
\* an earlier one with its key.
RECURSIVE parse_lines(_, _)
parse_lines(lines, data) ==
    IF lines = <<>> THEN data
    ELSE LET line == strip(Head(lines))
             i == first_eq(line) IN
         IF i = 0 THEN parse_lines(Tail(lines), data)
         ELSE LET key == strip(SubSeq(line, 1, i - 1))
                  value == strip(SubSeq(line, i + 1, Len(line))) IN
              parse_lines(Tail(lines),
                          {kv \in data : kv.key # key} \cup {[key |-> key, value |-> value]})

\* parse_pyvenv_cfg reading the file system f: the dict as its set of items.
parse_pyvenv_cfg_in(f, venv_path) ==
    LET cfg_path == join(venv_path, <<"pyvenv.cfg">>) IN
    IF stat_in(f, cfg_path).kind = "none" THEN {}
    ELSE parse_lines(stat_in(f, cfg_path).lines, {})

\* parse_pyvenv_cfg now.
parse_pyvenv_cfg(venv_path) == parse_pyvenv_cfg_in(fs, venv_path)

\* dict.get
get(data, key, default) ==
    IF \E kv \in data : kv.key = <<key>>
    THEN (CHOOSE kv \in data : kv.key = <<key>>).value
    ELSE default

\* _build_venv_info returning None
NoInfo == [name |-> "", path |-> <<>>, python_version |-> <<>>, python_home |-> <<>>,
           is_valid |-> FALSE, source |-> "None"]

\* get_venv_python
get_venv_python(venv_path) == join(join(venv_path, <<"bin">>), <<"python">>)

\* _build_venv_info reading the file system f.
build_venv_info_in(f, dirpath, source) ==
    LET cfg == parse_pyvenv_cfg_in(f, dirpath)
        python_bin == join(join(dirpath, <<"bin">>), <<"python">>) IN
    IF cfg = {} THEN NoInfo
    ELSE [name |-> basename(dirpath),
          path |-> abspath(dirpath),
          python_version |-> get(cfg, "version", get(cfg, "version_info", <<"unknown">>)),
          python_home |-> get(cfg, "home", <<>>),
          is_valid |-> stat_in(f, python_bin).kind = "file" /\ stat_in(f, python_bin).x,
          source |-> source]

\* _build_venv_info now.
build_venv_info(dirpath, source) == build_venv_info_in(fs, dirpath, source)

\* ------------------------------------------- venv_manager.py: lifecycle

SafetyCheckFailed == "VenvError: Safety check failed"

\* No call made yet. A call is recorded with the exception it raised and the
\* text that exception carries, what it returned, whether it started a process,
\* what the process came to and what the process wrote.
NoCall == [op |-> "none", path |-> <<>>, raised |-> "none", text |-> <<>>,
           ret |-> <<>>, spawned |-> FALSE, proc |-> "none",
           stdout |-> <<>>, stderr |-> <<>>]

\* delete_venv with its check weakened to the directory existing.
delete_venv_isdir(path) ==
    IF ~isdir(path)
    THEN /\ call' = [NoCall EXCEPT !.op = "delete", !.path = path,
                                   !.raised = SafetyCheckFailed]
         /\ UNCHANGED fs
    ELSE IF islink(path)
    THEN /\ call' = [NoCall EXCEPT !.op = "delete", !.path = path, !.raised = "OSError"]
         /\ UNCHANGED fs
    ELSE /\ call' = [NoCall EXCEPT !.op = "delete", !.path = path]
         /\ fs' = removed_tree(path)

\* delete_venv: shutil.rmtree refuses a symbolic link with an OSError.
delete_venv(path) ==
    LET cfg == join(path, <<"pyvenv.cfg">>) IN
    IF ~exists(cfg)
    THEN /\ call' = [NoCall EXCEPT !.op = "delete", !.path = path,
                                   !.raised = SafetyCheckFailed]
         /\ UNCHANGED fs
    ELSE IF islink(path)
    THEN /\ call' = [NoCall EXCEPT !.op = "delete", !.path = path, !.raised = "OSError"]
         /\ UNCHANGED fs
    ELSE /\ call' = [NoCall EXCEPT !.op = "delete", !.path = path]
         /\ fs' = removed_tree(path)

\* ------------------------------------------- venv_manager.py: packages

\* What running [venv_python, "-m", "pip", ...] can come to: the spawn fails when
\* the file is missing or not executable; a process that starts times out or
\* exits, and pip list exits 0 with one of the Stdouts.
Stdouts ==
    { "not json", "null", "[]", "[{name, version}]", "[{name}]", "[1]", "{}", "{error}" }

SpawnFailures == {"FileNotFoundError", "PermissionError"}

subprocess_run(python, stdouts) ==
    IF ~exists(python) THEN {"FileNotFoundError"}
    ELSE IF ~(isfile(python) /\ access_X_OK(python)) THEN {"PermissionError"}
    ELSE {"TimeoutExpired", "exit 1"} \cup stdouts

\* A JSON object as its set of members, and the values json.loads gives.
Member(k, v) == [key |-> k, value |-> v]

JsonObject(members) == [t |-> "object", members |-> members, items |-> <<>>]

JsonArray(items) == [t |-> "array", members |-> {}, items |-> items]

JsonScalar(t) == [t |-> t, members |-> {}, items |-> <<>>]

\* json.loads(result.stdout); "JSONDecodeError" when the text is not JSON.
json_loads(stdout) ==
    CASE stdout = "null" -> JsonScalar("null")
      [] stdout = "[]" -> JsonArray(<<>>)
      [] stdout = "[{name, version}]" ->
             JsonArray(<<JsonObject({Member("name", "pip"), Member("version", "24.0")})>>)
      [] stdout = "[{name}]" -> JsonArray(<<JsonObject({Member("name", "pip")})>>)
      [] stdout = "[1]" -> JsonArray(<<JsonScalar("number")>>)
      [] stdout = "{}" -> JsonObject({})
      [] stdout = "{error}" -> JsonObject({Member("error", "x")})
      [] OTHER -> JsonScalar("JSONDecodeError")

\* What "for p in packages" iterates over: the items of an array, the keys of an
\* object (strings); anything else is not iterable.
RECURSIVE keys_of(_)
keys_of(members) ==
    IF members = {} THEN <<>>
    ELSE LET m == CHOOSE m \in members : TRUE IN
         <<JsonScalar("string")>> \o keys_of(members \ {m})

\* [PackageInfo(p["name"], p["version"]) for p in packages]: the list built, or
\* the exception the first failing subscript raises.
RECURSIVE package_infos(_, _)
package_infos(items, acc) ==
    IF items = <<>> THEN [raised |-> "none", ret |-> acc]
    ELSE LET p == Head(items) IN
         IF p.t # "object" THEN [raised |-> "TypeError", ret |-> <<>>]
         ELSE IF \A m \in p.members : m.key # "name"
         THEN [raised |-> "KeyError", ret |-> <<>>]
         ELSE IF \A m \in p.members : m.key # "version"
         THEN [raised |-> "KeyError", ret |-> <<>>]
         ELSE package_infos(Tail(items), Append(acc,
                  [name |-> (CHOOSE m \in p.members : m.key = "name").value,
                   version |-> (CHOOSE m \in p.members : m.key = "version").value]))

\* The try block of list_packages once the process has exited 0.
parse_listing(stdout) ==
    LET packages == json_loads(stdout) IN
    IF packages.t = "JSONDecodeError" THEN [raised |-> "JSONDecodeError", ret |-> <<>>]
    ELSE IF packages.t = "array" THEN package_infos(packages.items, <<>>)
    ELSE IF packages.t = "object" THEN package_infos(keys_of(packages.members), <<>>)
    ELSE [raised |-> "TypeError", ret |-> <<>>]

\* except (subprocess.TimeoutExpired, json.JSONDecodeError, KeyError): return []
ListCaught == {"TimeoutExpired", "JSONDecodeError", "KeyError"}

\* list_packages, the listing process coming to proc.
list_packages(venv_path, proc) ==
    LET venv_python == get_venv_python(venv_path)
        made == [NoCall EXCEPT !.op = "list", !.path = venv_path] IN
    /\ IF ~isfile(venv_python)
       THEN /\ proc = "none"
            /\ call' = made
       ELSE /\ proc \in subprocess_run(venv_python, Stdouts)
            /\ LET tried == IF proc \in SpawnFailures \cup {"TimeoutExpired"}
                            THEN [raised |-> proc, ret |-> <<>>]
                            ELSE IF proc = "exit 1"
                            THEN [raised |-> "none", ret |-> <<>>]
                            ELSE parse_listing(proc) IN
               call' = [made EXCEPT !.spawned = TRUE, !.proc = proc,
                                    !.raised = IF tried.raised \in ListCaught
                                               THEN "none" ELSE tried.raised,
                                    !.ret = tried.ret]
    /\ UNCHANGED fs

\* What a process can have written to a stream when it exits or is killed.
StdoutTexts == {<<>>, <<"out">>}

StderrTexts == {<<>>, <<"err">>}

\* A process that never started wrote nothing.
wrote(proc, out, err) ==
    proc \in SpawnFailures => out = <<>> /\ err = <<>>

\* str(e) of what subprocess.run raises itself: the command and the timeout, or
\* the errno text; never what the process wrote.
str_of(proc) ==
    IF proc = "TimeoutExpired" THEN <<"Command", "timed out">>
    ELSE IF proc \in SpawnFailures THEN <<"Errno">>
    ELSE <<>>

\* The body install_package, remove_package and upgrade_package share: run pip
\* through the environment's interpreter once, output = stdout + stderr, raise
\* VenvError with it on a non-zero exit.
pip_command(op, failed, venv_path, proc, out, err) ==
    LET venv_python == get_venv_python(venv_path)
        output == out \o err IN
    /\ proc \in subprocess_run(venv_python, {"exit 0"})
    /\ wrote(proc, out, err)
    /\ call' = [NoCall EXCEPT !.op = op, !.path = venv_path, !.spawned = TRUE,
                              !.proc = proc, !.stdout = out, !.stderr = err,
                              !.raised = IF proc = "exit 0" THEN "none"
                                         ELSE IF proc = "exit 1" THEN failed
                                         ELSE proc,
                              !.text = IF proc = "exit 1" THEN output ELSE str_of(proc),
                              !.ret = IF proc = "exit 0" THEN output ELSE <<>>]
    /\ UNCHANGED fs

\* install_package
install_package(venv_path, proc, out, err) ==
    pip_command("install", "VenvError: pip install failed", venv_path, proc, out, err)

\* remove_package
remove_package(venv_path, proc, out, err) ==
    pip_command("remove", "VenvError: pip uninstall failed", venv_path, proc, out, err)

\* upgrade_package
upgrade_package(venv_path, proc, out, err) ==
    pip_command("upgrade", "VenvError: pip upgrade failed", venv_path, proc, out, err)

\* What python -m venv can leave at path: an environment as it writes one when
\* nothing but a directory is in its way, a bare directory when it stopped
\* early, or nothing.
VenvEffects == {"written", "partial", "nothing"}

venv_tool(path, effect) ==
    LET cs == resolve_comps(<<>>, split_comps(abspath(path)))
        made == IF effect = "written"
                THEN (cs :> Directory)
                     @@ (cs \o <<"pyvenv.cfg">> :> RegularFile(FALSE, CfgWritten))
                     @@ (cs \o <<"bin">> :> Directory)
                     @@ (cs \o <<"bin", "python">> :> RegularFile(TRUE, <<>>))
                ELSE (cs :> Directory) IN
    IF effect = "nothing" \/ isfile(path) THEN fs
    ELSE [q \in DOMAIN fs \cup DOMAIN made |->
             IF q \in DOMAIN fs /\ (effect = "partial" \/ q \notin DOMAIN made)
             THEN fs[q] ELSE made[q]]

\* create_venv: one run of [python_path, "-m", "venv", path]; the VenvError of a
\* non-zero exit carries result.stderr alone.
create_venv(path, python_path, proc, out, err, effect) ==
    LET made == [NoCall EXCEPT !.op = "create", !.path = path, !.spawned = TRUE,
                               !.proc = proc, !.stdout = out, !.stderr = err] IN
    /\ proc \in subprocess_run(python_path, {"exit 0"})
    /\ wrote(proc, out, err)
    /\ proc \in SpawnFailures => effect = "nothing"
    /\ proc # "exit 0" => effect # "written"
    /\ fs' = venv_tool(path, effect)
    /\ IF proc \in SpawnFailures \cup {"TimeoutExpired"}
       THEN call' = [made EXCEPT !.raised = proc, !.text = str_of(proc)]
       ELSE IF proc = "exit 1"
       THEN call' = [made EXCEPT !.raised = "VenvError: Failed to create venv",
                                 !.text = err]
       ELSE LET info == build_venv_info_in(venv_tool(path, effect), path, "managed") IN
            IF info = NoInfo
            THEN call' = [made EXCEPT
                             !.raised = "VenvError: Venv created but pyvenv.cfg not found"]
            ELSE call' = [made EXCEPT !.ret = <<info>>]

\* ------------------------------------------ venv_manager.py: discovery

SKIP_DIRS ==
    { "node_modules", ".git", "__pycache__", ".tox", ".nox",
      ".eggs", "dist", "build", ".mypy_cache", ".pytest_cache",
      "Library", "Applications", ".Trash", ".cache", ".npm",
      ".cargo", ".rustup", ".local", ".pyenv", ".nvm",
      "Pictures", "Music", "Movies", ".docker" }

\* The names of the model in the order Python compares strings.
StrOrder ==
    << "", ".env", ".git", ".hid", ".venv", "B", "L", "a", "b", "bin", "c", "l",
       "node_modules", "nx", "python", "pyvenv.cfg", "r" >>

str_index(name) == CHOOSE i \in 1..Len(StrOrder) : StrOrder[i] = name

\* str.startswith("."): the names of the model that begin with a dot.
startswith_dot(d) ==
    d \in {".env", ".git", ".hid", ".venv"}
           \cup {".tox", ".nox", ".eggs", ".mypy_cache", ".pytest_cache", ".Trash",
                 ".cache", ".npm", ".cargo", ".rustup", ".local", ".pyenv", ".nvm",
                 ".docker"}

\* str.lower
lower(name) ==
    IF name = "B" THEN "b" ELSE IF name = "L" THEN "l" ELSE name

\* The user's home directory.
Home == <<SEP, "r">>

\* os.path.expanduser
expanduser(p) == IF p # <<>> /\ Head(p) = "~" THEN Home \o Tail(p) ELSE p

\* str.count(os.sep)
count_sep(p) == Cardinality({i \in 1..Len(p) : p[i] = SEP})

\* The names in a set as the file system lists them: in string order, or in the
\* reverse of it.
RECURSIVE listed(_)
listed(names) ==
    IF names = {} THEN <<>>
    ELSE LET first == CHOOSE n \in names :
                 \A m \in names :
                     IF listing = "ascending" THEN str_index(n) <= str_index(m)
                     ELSE str_index(n) >= str_index(m) IN
         <<first>> \o listed(names \ {first})

\* os.scandir(dirpath): the names of the entries of a kind in the directory.
entries(dirpath, kind) ==
    LET cs == resolve_comps(<<>>, split_comps(abspath(dirpath))) IN
    {Last(q) : q \in {q \in DOMAIN fs :
                          Len(q) = Len(cs) + 1 /\ IsPrefix(cs, q) /\ fs[q].kind = kind}}

\* depth >= max_depth with the comparison off by one.
depth_reached_gt(depth, max_depth) == depth > max_depth

\* depth >= max_depth
depth_reached(depth, max_depth) == depth >= max_depth

\* The filter on dirnames with the hidden-name test alone.
keep_dirname_hidden_only(d) == ~startswith_dot(d) \/ d \in {".venv", ".env"}

\* The filter on dirnames:
\* d not in SKIP_DIRS and not d.startswith(".") or d in (".venv", ".env")
keep_dirname(d) ==
    (d \notin SKIP_DIRS /\ ~startswith_dot(d)) \/ d \in {".venv", ".env"}

\* The loop over os.walk(base_dir, followlinks=False) in discover_venvs: todo
\* holds the directories still to be yielded, top-down, and acc the results, the
\* seen real paths and the directories yielded so far, each with whether a
\* descriptor was appended for it.
RECURSIVE walk(_, _, _, _)
walk(todo, base_dir, max_depth, acc) ==
    IF todo = <<>> THEN acc
    ELSE
        LET dirpath == Head(todo)
            dirnames == listed(entries(dirpath, "dir"))
            filenames == entries(dirpath, "file")
            depth == count_sep(SubSeq(dirpath, Len(base_dir) + 1, Len(dirpath)))
            here == [base_dir |-> base_dir, dirpath |-> dirpath, found |-> FALSE] IN
        IF depth_reached(depth, max_depth)
        THEN walk(Tail(todo), base_dir, max_depth,
                  [acc EXCEPT !.entered = Append(@, here)])
        ELSE
            LET kept == SelectSeq(dirnames, keep_dirname)
                is_env == "pyvenv.cfg" \in filenames
                real == realpath(dirpath)
                info == build_venv_info(dirpath, "discovered")
                found == is_env /\ real \notin acc.seen_paths /\ info # NoInfo
                acc1 == [results |-> IF found THEN Append(acc.results, info)
                                     ELSE acc.results,
                         seen_paths |-> IF found THEN acc.seen_paths \cup {real}
                                        ELSE acc.seen_paths,
                         entered |-> Append(acc.entered, [here EXCEPT !.found = found])]
                below == IF is_env THEN <<>>
                         ELSE SelectSeq([i \in 1..Len(kept) |-> join(dirpath, <<kept[i]>>)],
                                        LAMBDA sub : ~islink(sub)) IN
            walk(below \o Tail(todo), base_dir, max_depth, acc1)

\* The loop over scan_dirs in discover_venvs.
RECURSIVE scan(_, _, _)
scan(scan_dirs, max_depth, acc) ==
    IF scan_dirs = <<>> THEN acc
    ELSE LET base_dir == expanduser(Head(scan_dirs)) IN
         IF ~isdir(base_dir) THEN scan(Tail(scan_dirs), max_depth, acc)
         ELSE scan(Tail(scan_dirs), max_depth,
                   walk(<<base_dir>>, base_dir, max_depth, acc))

\* discover_venvs, with the directories os.walk yielded beside the results.
discover_venvs(scan_dirs, max_depth) ==
    scan(scan_dirs, max_depth, [results |-> <<>>, seen_paths |-> {}, entered |-> <<>>])

\* The descriptor load_managed_venvs gives a registered path that is no environment.
missing_venv(path) ==
    [name |-> basename(path), path |-> path, python_version |-> <<"unknown">>,
     python_home |-> <<>>, is_valid |-> FALSE, source |-> "managed (missing)"]

\* load_managed_venvs
RECURSIVE load_managed_venvs(_)
load_managed_venvs(managed_paths) ==
    IF managed_paths = <<>> THEN <<>>
    ELSE LET path == Head(managed_paths)
             rest == load_managed_venvs(Tail(managed_paths)) IN
         IF isdir(path) /\ exists(join(path, <<"pyvenv.cfg">>))
         THEN LET info == build_venv_info(path, "managed") IN
              IF info # NoInfo THEN <<info>> \o rest ELSE rest
         ELSE <<missing_venv(path)>> \o rest

\* ----------------------------------------------------- pyenvy.py: refresh

\* One loop of do_refresh: each descriptor of vs whose real path is not seen yet
\* is appended to merged.
RECURSIVE merge_loop(_, _)
merge_loop(vs, acc) ==
    IF vs = <<>> THEN acc
    ELSE LET v == Head(vs)
             real == realpath(v.path) IN
         IF real \notin acc.seen
         THEN merge_loop(Tail(vs), [merged |-> Append(acc.merged, v),
                                    seen |-> acc.seen \cup {real}])
         ELSE merge_loop(Tail(vs), acc)

\* The sort key with the lower() left out.
sort_key_cased(v) == str_index(v.name)

\* key=lambda v: v.name.lower(), as the place of the key among the strings
sort_key(v) == str_index(lower(v.name))

\* list.sort(key=...): stable, so each element goes behind those of equal key.
RECURSIVE sorted_by_key(_, _)
sorted_by_key(vs, acc) ==
    IF vs = <<>> THEN acc
    ELSE LET v == Head(vs)
             n == Cardinality({i \in 1..Len(acc) : sort_key(acc[i]) <= sort_key(v)}) IN
         sorted_by_key(Tail(vs),
                       SubSeq(acc, 1, n) \o <<v>> \o SubSeq(acc, n + 1, Len(acc)))

\* The merge of do_refresh with the discovered descriptors taken first.
merge_discovered_first(managed, found) ==
    sorted_by_key(merge_loop(managed, merge_loop(found, [merged |-> <<>>, seen |-> {}])).merged,
                  <<>>)

\* The merge of do_refresh: the managed descriptors, then the discovered ones,
\* the first of each real path kept, sorted by lower-cased name.
merge(managed, found) ==
    sorted_by_key(merge_loop(found, merge_loop(managed, [merged |-> <<>>, seen |-> {}])).merged,
                  <<>>)

\* PyEnvyApp._refresh_venvs: do_refresh, and _on_venvs_loaded with its result.
refresh_venvs ==
    LET managed == load_managed_venvs(managed_venvs)
        walked == discover_venvs(scan_directories, scan_max_depth) IN
    /\ loaded' = managed
    /\ discovered' = walked.results
    /\ entered' = walked.entered
    /\ all_venvs' = merge(managed, walked.results)
    /\ UNCHANGED <<scan_directories, scan_max_depth, listing>>

\* ------------------------------------------------- file system families

\* The file system holding, for each directory d of shape, what shape[d] names:
\* "dir" an empty directory, "file" a plain file, "env" an environment as
\* python -m venv leaves it, "env_nopy" one without bin/python, "env_nox" one
\* whose bin/python is not executable, "nokeys" one whose pyvenv.cfg has no
\* key = value line.
ShapeKinds == {"none", "file", "dir", "env", "env_nopy", "env_nox", "nokeys"}

Envish == {"env", "env_nopy", "env_nox", "nokeys"}

node_of(shape, q) ==
    LET d == CHOOSE d \in DirNodes : IsPrefix(d, q) /\ Len(q) - Len(d) <= 2
                 /\ (q = d \/ q = d \o <<"pyvenv.cfg">> \/ q = d \o <<"bin">>
                     \/ q = d \o <<"bin", "python">>)
                 /\ (q \in DirNodes => q = d)
        k == shape[d] IN
    IF q = d
    THEN (IF k = "none" THEN Nothing
          ELSE IF k = "file" THEN RegularFile(FALSE, <<>>) ELSE Directory)
    ELSE IF k \notin Envish THEN Nothing
    ELSE IF q = d \o <<"pyvenv.cfg">>
    THEN RegularFile(FALSE, IF k = "nokeys" THEN CfgNoKeys ELSE CfgWritten)
    ELSE IF q = d \o <<"bin">> THEN Directory
    ELSE IF k = "env_nopy" THEN Nothing
    ELSE RegularFile(k # "env_nox", <<>>)

file_system(shape) ==
    [q \in {q \in Universe : node_of(shape, q).kind # "none"} |-> node_of(shape, q)]

\* A shape is a tree: what is not a directory has nothing below it.
WellFormed(shape) ==
    \A d \in DirNodes :
        shape[d] # "none" /\ Len(d) > 1 =>
            shape[SubSeq(d, 1, Len(d) - 1)] \in {"dir"} \cup Envish

NoDirs == [d \in DirNodes |-> "none"]

\* The file systems of the lifecycle and package operations: /r holds /r/a in
\* any shape and may hold the environment /r/b.
LifecycleShapes ==
    {[NoDirs EXCEPT ![<<"r">>] = "dir", ![<<"r", "a">>] = ka, ![<<"r", "b">>] = kb] :
        ka \in ShapeKinds, kb \in {"none", "env"}}

\* The file systems of the discovery: a chain /r/a/B/c three levels deep,
\* environments named .venv at two levels, and hidden and denylisted directories.
DiscoverShapes ==
    {shape \in
        {[NoDirs EXCEPT ![<<"r">>] = kr,
                        ![<<"r", "a">>] = ka,
                        ![<<"r", "a", "B">>] = kB,
                        ![<<"r", "a", "B", "c">>] = kc,
                        ![<<"r", "a", ".env">>] = ke,
                        ![<<"r", ".venv">>] = kv,
                        ![<<"r", ".git">>] = kg,
                        ![<<"r", ".git", "a">>] = kga,
                        ![<<"r", "node_modules">>] = kn,
                        ![<<"r", ".hid">>] = kh] :
            kr \in {"dir", "env"}, ka \in {"none", "dir", "env", "nokeys"},
            kB \in {"none", "dir", "env"}, kc \in {"none", "env"},
            ke \in {"none", "env"}, kv \in {"none", "env"},
            kg \in {"none", "dir"}, kga \in {"none", "env"},
            kn \in {"none", "env"}, kh \in {"none", "env"}} :
        WellFormed(shape)}

\* The scan_directories of the discovery: the root with and without a trailing
\* separator, as ~, through the link /L, overlapping roots, a missing root.
DiscoverRoots ==
    { << <<SEP, "r">> >>,
      << <<SEP, "r", SEP>> >>,
      << <<"~">>, <<SEP, "r", SEP, "a">> >>,
      << <<SEP, "L">>, <<SEP, "r">> >>,
      << <<SEP, "r", SEP, "nx">>, <<SEP, "r", SEP, "a", SEP>> >> }

\* The file systems of the merge: environments of one name in two places
\* (/r/a and /r/.git/a), of names differing in case (/r/a/B and /r/b), and /r/a
\* with an interpreter that cannot be run or a pyvenv.cfg without a key.
RefreshShapes ==
    {shape \in
        {[NoDirs EXCEPT ![<<"r">>] = "dir",
                        ![<<"r", "a">>] = ka,
                        ![<<"r", "a", "B">>] = kB,
                        ![<<"r", "b">>] = kb,
                        ![<<"r", ".git">>] = "dir",
                        ![<<"r", ".git", "a">>] = kga] :
            ka \in {"none", "dir", "env", "env_nox", "nokeys"}, kB \in {"none", "env"},
            kb \in {"none", "env"}, kga \in {"none", "env"}} :
        WellFormed(shape)}

\* The paths the registry can hold in the merge: they come out of abspath.
ManagedPaths ==
    { <<SEP, "r", SEP, "a">>, <<SEP, "L">>, <<SEP, "r", SEP, "a", SEP, "B">>,
      <<SEP, "L", SEP, "B">>, <<SEP, "r", SEP, "b">>, <<SEP, "r", SEP, ".git", SEP, "a">> }

\* The registries of the merge: up to MaxManaged paths, none twice.
ManagedLists == {l \in ListsNoDup(ManagedPaths) : Len(l) <= MaxManaged}

\* The paths the operations are called with: /L is a link to /r/a, /r/nx is
\* never there.
CallPaths ==
    { <<SEP, "r", SEP, "a">>, <<SEP, "r", SEP, "b">>, <<SEP, "L">>,
      <<SEP, "r", SEP, "nx">> }

\* The path create is asked for, whatever is there, and the interpreter it is
\* given: the one of the environment /r/b, there or not.
CreateTargets == { <<SEP, "r", SEP, "a">> }

CreatePythons == { <<SEP, "r", SEP, "b", SEP, "bin", SEP, "python">> }

\* ------------------------------------------------------------ workers.py

\* The task ids the application submits under, each with whether its call site
\* passes on_error and status_msg.
TaskIds == {"detect_pythons", "list_packages"}

\* pyenvy.py submits detect_pythons with on_success alone; every other call
\* site passes on_error and status_msg.
PassesOnError(id) == id # "detect_pythons"

PassesStatusMsg(id) == id # "detect_pythons"

Handles == 1..MaxTasks

NoTask == 0

\* A BackgroundTask that has not been constructed yet.
Unborn == [id |-> "none", on_error |-> FALSE, st |-> "unborn", sig |-> "none"]

\* The handles constructed so far: they are given out in order.
Submitted == {h \in DOMAIN thread : thread[h].st # "unborn"}

\* QThread.isRunning: from start() until run() has returned.
isRunning(h) == thread[h].st \in {"running", "emitted"}

\* TaskManager.is_running
is_running(task_id) == tasks[task_id] # NoTask /\ isRunning(tasks[task_id])

\* TaskManager.any_running
any_running == \E id \in DOMAIN tasks : tasks[id] # NoTask /\ isRunning(tasks[id])

\* PyEnvyApp._update_status, the status callback: the message and the progress bar.
update_status(message, busy) == status' = [msg |-> message, busy |-> busy]

\* TaskManager.run: tell the status observer, construct the task, connect its
\* signals, register it under task_id (replacing any entry there), start it.
run(task_id, on_error, status_msg) ==
    /\ Cardinality(Submitted) < MaxTasks
    /\ LET h == Cardinality(Submitted) + 1 IN
       /\ IF status_msg THEN update_status("working", TRUE) ELSE UNCHANGED status
       /\ thread' = [thread EXCEPT ![h] =
              [id |-> task_id, on_error |-> on_error, st |-> "running", sig |-> "none"]]
       /\ tasks' = [tasks EXCEPT ![task_id] = h]
    /\ UNCHANGED <<events, cblog>>

\* BackgroundTask.run with finished emitted in a finally clause: a raising func
\* emits error and then finished.
BackgroundTask_run_finally(h, sig) ==
    /\ thread[h].st = "running"
    /\ thread' = [thread EXCEPT ![h].st = "emitted", ![h].sig = sig]
    /\ events' = IF sig = "error"
                 THEN events \o <<[task |-> h, sig |-> "error"], [task |-> h, sig |-> "finished"]>>
                 ELSE Append(events, [task |-> h, sig |-> sig])
    /\ UNCHANGED <<tasks, status, cblog>>

\* BackgroundTask.run emitting nothing when func raises.
BackgroundTask_run_silent(h, sig) ==
    /\ thread[h].st = "running"
    /\ thread' = [thread EXCEPT ![h].st = "emitted", ![h].sig = sig]
    /\ events' = IF sig = "error" THEN events
                 ELSE Append(events, [task |-> h, sig |-> sig])
    /\ UNCHANGED <<tasks, status, cblog>>

\* BackgroundTask.run, up to its emit: func returns and finished is emitted, or
\* func raises an Exception and error is emitted. The signal is queued for the
\* control thread, where the connection was made.
BackgroundTask_run(h, sig) ==
    /\ thread[h].st = "running"
    /\ thread' = [thread EXCEPT ![h].st = "emitted", ![h].sig = sig]
    /\ events' = Append(events, [task |-> h, sig |-> sig])
    /\ UNCHANGED <<tasks, status, cblog>>

\* BackgroundTask.run returns and the thread ends: isRunning() is false from here.
thread_exit(h) ==
    /\ thread[h].st = "emitted"
    /\ thread' = [thread EXCEPT ![h].st = "finished"]
    /\ UNCHANGED <<tasks, events, status, cblog>>

\* The closure on_finished of TaskManager.run, for the task h.
on_finished(h) ==
    /\ tasks' = [tasks EXCEPT ![thread[h].id] = NoTask]
    /\ update_status("Ready", FALSE)
    /\ cblog' = Append(cblog, [task |-> h, cb |-> "on_success"])

\* on_task_error leaving the registry entry where it is.
on_task_error_keep(h) ==
    /\ UNCHANGED tasks
    /\ update_status("Error", FALSE)
    /\ IF thread[h].on_error
       THEN cblog' = Append(cblog, [task |-> h, cb |-> "on_error"])
       ELSE UNCHANGED cblog

\* The closure on_task_error of TaskManager.run, for the task h.
on_task_error(h) ==
    /\ tasks' = [tasks EXCEPT ![thread[h].id] = NoTask]
    /\ update_status("Error", FALSE)
    /\ IF thread[h].on_error
       THEN cblog' = Append(cblog, [task |-> h, cb |-> "on_error"])
       ELSE UNCHANGED cblog

\* The control thread's event loop takes the oldest queued signal and calls the
\* slot connected to it.
deliver ==
    /\ events # <<>>
    /\ LET e == Head(events) IN
       IF e.sig = "finished" THEN on_finished(e.task) ELSE on_task_error(e.task)
    /\ events' = Tail(events)
    /\ UNCHANGED thread

\* TaskManager.__init__, and PyEnvyApp._build_status_bar for the status shown.
SupInit ==
    /\ tasks = [id \in TaskIds |-> NoTask]
    /\ thread = [h \in Handles |-> Unborn]
    /\ events = <<>>
    /\ status = [msg |-> "Ready", busy |-> FALSE]
    /\ cblog = <<>>

\* ------------------------------------------------------------- config.py

\* What add_managed_venv and remove_managed_venv are called with: the path of a
\* created environment, a directory picked in the file dialog (here through the
\* link /L as well), and spellings abspath normalises.
RegistryArgs ==
    { <<SEP, "r", SEP, "a">>,
      <<SEP, "r", SEP, "a", SEP>>,
      <<"a">>,
      <<SEP, "L">>,
      <<SEP, "r", SEP, "b">>,
      <<SEP, "r", SEP, "c">>,
      <<SEP, "r", SEP, "a", SEP, "..", SEP, "b">> }

\* add_managed_venv
add_managed_venv(venv_path) ==
    LET path == abspath(venv_path) IN
    /\ managed_venvs' = IF path \notin Range(managed_venvs)
                        THEN Append(managed_venvs, path)
                        ELSE managed_venvs
    /\ cfgOp' = [op |-> "add", arg |-> venv_path]

\* remove_managed_venv
remove_managed_venv(venv_path) ==
    LET path == abspath(venv_path) IN
    /\ managed_venvs' = SelectSeq(managed_venvs, LAMBDA p : p # path)
    /\ cfgOp' = [op |-> "remove", arg |-> venv_path]

\* DEFAULT_CONFIG["managed_venvs"]
CfgInit ==
    /\ managed_venvs = <<>>
    /\ cfgOp = [op |-> "none", arg |-> <<>>]

\* The file system before any environment exists, and no call made.
FsInit ==
    /\ fs = file_system([NoDirs EXCEPT ![<<"r">>] = "dir"])
    /\ call = NoCall

\* DEFAULT_CONFIG: the home directory scanned to depth 3; nothing loaded yet.
ScanInit ==
    /\ scan_directories = <<Home>>
    /\ scan_max_depth = 3
    /\ listing = "ascending"
    /\ loaded = <<>>
    /\ discovered = <<>>
    /\ entered = <<>>
    /\ all_venvs = <<>>

\* ------------------------------ venv_manager.py: interpreter detection

\* The interpreter paths there can be, in the order sorted() gives them, and the
\* files they can resolve to.
InterpreterPaths ==
    << "/opt/homebrew/bin/python3.11", "/opt/homebrew/bin/python3.12",
       "/r/.pyenv/versions/3.12/bin/python3", "/usr/bin/python3" >>

PyenvPath == "/r/.pyenv/versions/3.12/bin/python3"

Targets == {"/T1", "/T2"}

\* What [path, "--version"] can come to.
ProbeOutcomes == {"exit 0", "exit 1", "TimeoutExpired", "FileNotFoundError"}

\* No interpreter anywhere.
Absent == [present |-> FALSE, target |-> "/T1", probe |-> "FileNotFoundError"]

\* search_patterns, with the pyenv pattern appended when its root is a directory.
search_patterns ==
    << [pattern |-> "/usr/bin/python3", source |-> "system"],
       [pattern |-> "/opt/homebrew/bin/python3", source |-> "homebrew"],
       [pattern |-> "/opt/homebrew/bin/python3.*[0-9]", source |-> "homebrew"],
       [pattern |-> "/usr/local/bin/python3", source |-> "homebrew"],
       [pattern |-> "/usr/local/bin/python3.*[0-9]", source |-> "homebrew"],
       [pattern |-> "/Library/Frameworks/Python.framework/Versions/*/bin/python3",
        source |-> "python.org"] >>
    \o (IF interpreters.pyenv_root
        THEN << [pattern |-> "/r/.pyenv/versions/*/bin/python3", source |-> "pyenv"] >>
        ELSE << >>)

\* "*" in pattern or "." in pattern.split("/")[-1]
is_glob(pattern) ==
    pattern \in { "/opt/homebrew/bin/python3.*[0-9]", "/usr/local/bin/python3.*[0-9]",
                  "/Library/Frameworks/Python.framework/Versions/*/bin/python3",
                  "/r/.pyenv/versions/*/bin/python3" }

\* The paths of the model a pattern matches.
matches(pattern, path) ==
    \/ pattern = path
    \/ /\ pattern = "/opt/homebrew/bin/python3.*[0-9]"
       /\ path \in {"/opt/homebrew/bin/python3.11", "/opt/homebrew/bin/python3.12"}
    \/ /\ pattern = "/r/.pyenv/versions/*/bin/python3"
       /\ path = PyenvPath

\* sorted(glob.glob(pattern)), or [pattern] if os.path.exists(pattern) else []
paths_of(pattern) ==
    SelectSeq(InterpreterPaths,
              LAMBDA path : /\ interpreters.files[path].present
                            /\ IF is_glob(pattern) THEN matches(pattern, path)
                               ELSE path = pattern)

\* What the interpreter at a target prints for --version.
version_stdout(target) ==
    IF target = "/T1" THEN <<"Python ", "3.11.4", "\n">>
    ELSE <<"Python ", "3.12.1", "\n">>

\* result.stdout.strip().replace("Python ", "")
version_str_of(stdout) ==
    LET stripped == SelectSeq(stdout, LAMBDA t : t # "\n")
        replaced == SelectSeq(stripped, LAMBDA t : t # "Python ") IN
    IF Len(replaced) = 1 THEN replaced[1] ELSE ""

\* _version_tuple
version_tuple(version_str) ==
    CASE version_str = "3.11.4" -> <<3, 11, 4>>
      [] version_str = "3.12.1" -> <<3, 12, 1>>
      [] OTHER -> <<0, 0, 0>>

\* The order of tuples of integers.
RECURSIVE tuple_less(_, _)
tuple_less(a, b) ==
    IF a = <<>> THEN b # <<>>
    ELSE IF b = <<>> THEN FALSE
    ELSE IF Head(a) # Head(b) THEN Head(a) < Head(b)
    ELSE tuple_less(Tail(a), Tail(b))

\* candidates.sort(key=lambda p: _version_tuple(p.version), reverse=True): the
\* sort is stable, installs of one version keep their order.
RECURSIVE sorted_by_version(_)
sorted_by_version(candidates) ==
    IF candidates = <<>> THEN <<>>
    ELSE LET key(c) == version_tuple(c.version)
             first == CHOOSE i \in 1..Len(candidates) :
                          /\ \A j \in 1..Len(candidates) :
                                 ~tuple_less(key(candidates[i]), key(candidates[j]))
                          /\ \A j \in 1..(i - 1) :
                                 tuple_less(key(candidates[j]), key(candidates[i])) IN
         <<candidates[first]>>
             \o sorted_by_version(SubSeq(candidates, 1, first - 1)
                                      \o SubSeq(candidates, first + 1, Len(candidates)))

\* The loop over paths with the real path marked seen before the probe.
RECURSIVE probe_paths_seen_first(_, _, _)
probe_paths_seen_first(paths, source, acc) ==
    IF paths = <<>> THEN acc
    ELSE LET path == Head(paths)
             f == interpreters.files[path]
             realpath_ == f.target IN
         IF realpath_ \in acc.seen_realpaths
         THEN probe_paths_seen_first(Tail(paths), source, acc)
         ELSE IF ~interpreters.x[realpath_]
         THEN probe_paths_seen_first(Tail(paths), source, acc)
         ELSE IF f.probe = "exit 0"
         THEN probe_paths_seen_first(Tail(paths), source,
                  [candidates |-> Append(acc.candidates,
                                     [path |-> path,
                                      version |-> version_str_of(version_stdout(realpath_)),
                                      source |-> source]),
                   seen_realpaths |-> acc.seen_realpaths \cup {realpath_}])
         ELSE probe_paths_seen_first(Tail(paths), source,
                  [acc EXCEPT !.seen_realpaths = @ \cup {realpath_}])

\* The loop "for path in paths": a path whose real path was seen or that is not
\* executable is skipped; the others are asked for their version, and one that
\* exits 0 is appended and its real path marked seen.
RECURSIVE probe_paths(_, _, _)
probe_paths(paths, source, acc) ==
    IF paths = <<>> THEN acc
    ELSE LET path == Head(paths)
             f == interpreters.files[path]
             realpath_ == f.target IN
         IF realpath_ \in acc.seen_realpaths
         THEN probe_paths(Tail(paths), source, acc)
         ELSE IF ~interpreters.x[realpath_]
         THEN probe_paths(Tail(paths), source, acc)
         ELSE IF f.probe = "exit 0"
         THEN probe_paths(Tail(paths), source,
                  [candidates |-> Append(acc.candidates,
                                     [path |-> path,
                                      version |-> version_str_of(version_stdout(realpath_)),
                                      source |-> source]),
                   seen_realpaths |-> acc.seen_realpaths \cup {realpath_}])
         ELSE probe_paths(Tail(paths), source, acc)

\* The loop "for pattern, source in search_patterns".
RECURSIVE scan_patterns(_, _)
scan_patterns(patterns, acc) ==
    IF patterns = <<>> THEN acc
    ELSE scan_patterns(Tail(patterns),
                       probe_paths(paths_of(Head(patterns).pattern),
                                   Head(patterns).source, acc))

\* detect_python_versions
detect_python_versions ==
    sorted_by_version(
        scan_patterns(search_patterns, [candidates |-> <<>>, seen_realpaths |-> {}]).candidates)

\* CreateVenvDialog._on_pythons_detected with what detect_python_versions returned.
on_pythons_detected ==
    /\ python_installs' = detect_python_versions
    /\ UNCHANGED interpreters

\* ------------------------------------------- pyenvy.py: the main window

\* The task ids of the main window; each call site passes on_error and status_msg.
WindowTaskIds == {"refresh", "list_packages", "install_package", "delete_venv"}

WindowHandles == 1..MaxWindowTasks

\* selected_venv = None
None == <<>>

\* A BackgroundTask not constructed yet has no func.
NoJob == [op |-> "none", venv_path |-> None]

\* The environments in the list, by path.
WindowVenvs == { <<SEP, "r", SEP, "a">>, <<SEP, "r", SEP, "b">> }

\* What list_packages returns for an environment: its packages, here one named
\* after it.
packages_of(venv_path) == <<[name |-> venv_path, version |-> "1.0"]>>

\* The state the handlers of the main window read and write.
Window ==
    [tasks |-> tasks, thread |-> thread, status |-> status, job |-> job,
     selected_venv |-> selected_venv, act_delete |-> act_delete,
     all_packages |-> all_packages]

\* A handler has run and left w.
becomes(w) ==
    /\ tasks' = w.tasks
    /\ thread' = w.thread
    /\ status' = w.status
    /\ job' = w.job
    /\ selected_venv' = w.selected_venv
    /\ act_delete' = w.act_delete
    /\ all_packages' = w.all_packages

\* The handles of w not given out yet.
free(w) == {h \in DOMAIN w.thread : w.thread[h].st = "unborn"}

\* TaskManager.run(task_id, func, args, on_success, on_error, status_msg) in w.
task_run(w, task_id, func) ==
    LET h == Cardinality(DOMAIN w.thread \ free(w)) + 1 IN
    [w EXCEPT !.status = [msg |-> "working", busy |-> TRUE],
              !.thread[h] = [id |-> task_id, on_error |-> TRUE, st |-> "running",
                             sig |-> "none"],
              !.tasks[task_id] = h,
              !.job[h] = func]

\* TaskManager.any_running in w.
any_running_in(w) ==
    \E id \in DOMAIN w.tasks :
        w.tasks[id] # NoTask /\ w.thread[w.tasks[id]].st \in {"running", "emitted"}

\* _update_button_states: act_delete.setEnabled(has_venv and not busy)
update_button_states(w) ==
    [w EXCEPT !.act_delete = w.selected_venv # None /\ ~any_running_in(w)]

\* _load_packages
load_packages(w) ==
    IF w.selected_venv = None THEN w
    ELSE task_run(w, "list_packages", [op |-> "list", venv_path |-> w.selected_venv])

\* _on_venv_selected(row): row < 0 as None, a row of the list as its path.
on_venv_selected(w, row) ==
    IF row = None
    THEN update_button_states([w EXCEPT !.selected_venv = None])
    ELSE update_button_states(load_packages([w EXCEPT !.selected_venv = row]))

\* _on_package_selected
on_package_selected(w) == update_button_states(w)

\* _install_package, the entry holding a package spec.
install_package_clicked(w) ==
    IF w.selected_venv = None THEN w
    ELSE task_run(w, "install_package", [op |-> "install", venv_path |-> w.selected_venv])

\* _delete_selected_venv, the question answered Yes.
delete_selected_venv(w) ==
    IF w.selected_venv = None THEN w
    ELSE task_run(w, "delete_venv", [op |-> "delete", venv_path |-> w.selected_venv])

\* _refresh_venvs
refresh_venvs_submitted(w) ==
    task_run(w, "refresh", [op |-> "refresh", venv_path |-> None])

\* _on_venv_deleted, once the path is taken from the registry.
on_venv_deleted(w) ==
    refresh_venvs_submitted(
        update_button_states([w EXCEPT !.selected_venv = None, !.all_packages = <<>>]))

\* on_success of the task h, called with what its func returned. The list a
\* refresh returns is shown with the list widget's signals blocked: the selection
\* stays.
on_success_of(w, h) ==
    CASE w.job[h].op = "list" ->
             [w EXCEPT !.all_packages = packages_of(w.job[h].venv_path)]
      [] w.job[h].op = "install" -> load_packages(w)
      [] w.job[h].op = "delete" -> on_venv_deleted(w)
      [] OTHER -> w

\* on_error of the task h: _on_packages_error for a listing, a message box for
\* the others.
on_error_of(w, h) ==
    IF w.job[h].op = "list" THEN [w EXCEPT !.all_packages = <<>>] ELSE w

\* The closures on_finished and on_task_error of TaskManager.run in w: the entry
\* of the id is popped, the status observer told idle, the callback called.
slot(w, h, sig) ==
    LET popped == [w EXCEPT !.tasks[w.thread[h].id] = NoTask,
                            !.status = [msg |-> IF sig = "finished" THEN "Ready"
                                                ELSE "Error",
                                        busy |-> FALSE]] IN
    IF sig = "finished" THEN on_success_of(popped, h) ELSE on_error_of(popped, h)

\* ------------------------------------------ pyenvy.py: bulk operations

\* The packages of the environment, and the selections a removal or an upgrade
\* is started with: pkg_tree.selectedItems(), some items, each once.
Packages == 1..MaxBulk

Selections == ListsNoDup(Packages) \ {<<>>}

\* No removal or upgrade started: every package installed as it was.
NoBulk == [op |-> "none", venv_path |-> <<>>, names |-> <<>>, invoked |-> <<>>,
           env |-> [p \in Packages |-> "installed"], st |-> "idle",
           error |-> [name |-> 0, raised |-> "none", text |-> <<>>],
           cb |-> "none", arg |-> [name |-> 0, raised |-> "none", text |-> <<>>]]

\* _remove_package / _upgrade_package: the names are read from the selection and
\* the task is submitted with do_remove or do_upgrade.
start_bulk(op, venv_path, names) ==
    /\ bulk.st = "idle"
    /\ bulk' = [NoBulk EXCEPT !.op = op, !.venv_path = venv_path, !.names = names,
                              !.st = "running"]

\* What pip leaves of a package it exited 0 for.
applied(op) == IF op = "remove" THEN "removed" ELSE "upgraded"

\* The loop with each failure caught and the next name tried.
bulk_loop_continue(name, last) ==
    LET made == [name |-> name, proc |-> call'.proc, raised |-> call'.raised] IN
    bulk' = [bulk EXCEPT
                !.invoked = Append(@, made),
                !.env[name] = IF call'.raised = "none" THEN applied(bulk.op) ELSE @,
                !.st = IF last THEN "returned" ELSE "running"]

\* One turn of "for name in names": the call made for name has returned or has
\* raised; when it raised the exception leaves do_remove / do_upgrade, when it
\* returned after the last name the function returns True.
bulk_loop(name, last) ==
    LET made == [name |-> name, proc |-> call'.proc, raised |-> call'.raised] IN
    IF call'.raised # "none"
    THEN bulk' = [bulk EXCEPT
                     !.invoked = Append(@, made),
                     !.st = "raised",
                     !.error = [name |-> name, raised |-> call'.raised,
                                text |-> call'.text]]
    ELSE bulk' = [bulk EXCEPT
                     !.invoked = Append(@, made),
                     !.env[name] = applied(bulk.op),
                     !.st = IF last THEN "returned" ELSE "running"]

\* do_remove, one turn.
do_remove(proc, out, err) ==
    /\ bulk.st = "running" /\ bulk.op = "remove"
    /\ LET i == Len(bulk.invoked) + 1 IN
       /\ remove_package(bulk.venv_path, proc, out, err)
       /\ bulk_loop(bulk.names[i], i = Len(bulk.names))

\* do_upgrade, one turn.
do_upgrade(proc, out, err) ==
    /\ bulk.st = "running" /\ bulk.op = "upgrade"
    /\ LET i == Len(bulk.invoked) + 1 IN
       /\ upgrade_package(bulk.venv_path, proc, out, err)
       /\ bulk_loop(bulk.names[i], i = Len(bulk.names))

\* BackgroundTask.run around the function and the slot its signal reaches:
\* on_success when it returned, on_error(e) with what it raised.
bulk_callback ==
    /\ bulk.st \in {"returned", "raised"}
    /\ bulk.cb = "none"
    /\ bulk' = [bulk EXCEPT !.cb = IF bulk.st = "returned" THEN "on_success"
                                   ELSE "on_error",
                            !.arg = bulk.error]

\* PyEnvyApp.__init__ and _build_toolbar: nothing selected, nothing listed, the
\* delete action disabled; nothing started, nothing detected.
AppInit ==
    /\ selected_venv = None
    /\ act_delete = FALSE
    /\ all_packages = <<>>
    /\ job = [h \in Handles |-> NoJob]
    /\ bulk = NoBulk
    /\ interpreters = [files |-> [p \in Range(InterpreterPaths) |-> Absent],
                       x |-> [t \in Targets |-> TRUE], pyenv_root |-> FALSE]
    /\ python_installs = <<>>

\* -------------------------------------------------------- specifications

\* The task supervisor: the control thread submits and delivers, the workers run.
Init ==
    /\ SupInit
    /\ CfgInit
    /\ FsInit
    /\ ScanInit
    /\ AppInit

Submit ==
    /\ \E id \in TaskIds : run(id, PassesOnError(id), PassesStatusMsg(id))
    /\ UNCHANGED <<cfgVars, fsVars, scanVars, appVars>>

WorkerEmit ==
    /\ \E h \in Handles, sig \in {"finished", "error"} : BackgroundTask_run(h, sig)
    /\ UNCHANGED <<cfgVars, fsVars, scanVars, appVars>>

WorkerExit ==
    /\ \E h \in Handles : thread_exit(h)
    /\ UNCHANGED <<cfgVars, fsVars, scanVars, appVars>>

Deliver ==
    /\ deliver
    /\ UNCHANGED <<cfgVars, fsVars, scanVars, appVars>>

Next ==
    \/ Submit
    \/ WorkerEmit
    \/ WorkerExit
    \/ Deliver

Spec == Init /\ [][Next]_vars

\* The supervisor with threads that are scheduled and an event loop that runs:
\* a started thread's func ends and its run() returns, and the control thread
\* gets to every queued signal.
LiveSubmit ==
    /\ Cardinality(Submitted) < MaxLiveTasks
    /\ Submit

NextLive ==
    \/ LiveSubmit
    \/ WorkerEmit
    \/ WorkerExit
    \/ Deliver

SpecLive ==
    /\ Init
    /\ [][NextLive]_vars
    /\ WF_vars(WorkerEmit)
    /\ WF_vars(WorkerExit)
    /\ WF_vars(Deliver)

\* The managed-path registry under any sequence of add and remove calls.
AddManaged ==
    /\ \E p \in RegistryArgs : add_managed_venv(p)
    /\ UNCHANGED <<supVars, fsVars, scanVars, appVars>>

RemoveManaged ==
    /\ \E p \in RegistryArgs : remove_managed_venv(p)
    /\ UNCHANGED <<supVars, fsVars, scanVars, appVars>>

NextConfig ==
    \/ AddManaged
    \/ RemoveManaged

SpecConfig == Init /\ [][NextConfig]_vars

\* The lifecycle and package operations called, in any order, on any of the
\* file systems.
InitFS ==
    /\ SupInit
    /\ CfgInit
    /\ ScanInit
    /\ AppInit
    /\ \E shape \in LifecycleShapes : fs = file_system(shape)
    /\ call = NoCall

DeleteVenv ==
    /\ \E path \in CallPaths : delete_venv(path)
    /\ UNCHANGED <<supVars, cfgVars, scanVars, appVars>>

ListPackages ==
    /\ \E path \in CallPaths, proc \in {"none"} \cup SpawnFailures
                                 \cup {"TimeoutExpired", "exit 1"} \cup Stdouts :
           list_packages(path, proc)
    /\ UNCHANGED <<supVars, cfgVars, scanVars, appVars>>

InstallPackage ==
    /\ \E path \in CallPaths, proc \in SpawnFailures
                                 \cup {"TimeoutExpired", "exit 1", "exit 0"},
          out \in StdoutTexts, err \in StderrTexts :
           install_package(path, proc, out, err)
    /\ UNCHANGED <<supVars, cfgVars, scanVars, appVars>>

RemovePackage ==
    /\ \E path \in CallPaths, proc \in SpawnFailures
                                 \cup {"TimeoutExpired", "exit 1", "exit 0"},
          out \in StdoutTexts, err \in StderrTexts :
           remove_package(path, proc, out, err)
    /\ UNCHANGED <<supVars, cfgVars, scanVars, appVars>>

UpgradePackage ==
    /\ \E path \in CallPaths, proc \in SpawnFailures
                                 \cup {"TimeoutExpired", "exit 1", "exit 0"},
          out \in StdoutTexts, err \in StderrTexts :
           upgrade_package(path, proc, out, err)
    /\ UNCHANGED <<supVars, cfgVars, scanVars, appVars>>

CreateVenv ==
    /\ \E path \in CreateTargets, python_path \in CreatePythons,
          proc \in SpawnFailures \cup {"TimeoutExpired", "exit 1", "exit 0"},
          out \in StdoutTexts, err \in StderrTexts, effect \in VenvEffects :
           create_venv(path, python_path, proc, out, err, effect)
    /\ UNCHANGED <<supVars, cfgVars, scanVars, appVars>>

NextFS ==
    \/ CreateVenv
    \/ DeleteVenv
    \/ ListPackages
    \/ InstallPackage
    \/ RemovePackage
    \/ UpgradePackage

SpecFS == InitFS /\ [][NextFS]_vars

\* A removal or an upgrade of any selection in the environment /r/a, whose
\* interpreter is there or not.
InitBulk ==
    /\ SupInit
    /\ CfgInit
    /\ ScanInit
    /\ AppInit
    /\ \E ka \in {"env", "env_nopy"} :
           fs = file_system([NoDirs EXCEPT ![<<"r">>] = "dir", ![<<"r", "a">>] = ka])
    /\ call = NoCall

StartBulk ==
    /\ \E op \in {"remove", "upgrade"}, names \in Selections :
           start_bulk(op, <<SEP, "r", SEP, "a">>, names)
    /\ UNCHANGED <<supVars, cfgVars, fsVars, scanVars, detVars, winVars>>

DoRemove ==
    /\ \E proc \in SpawnFailures \cup {"TimeoutExpired", "exit 1", "exit 0"},
          out \in StdoutTexts, err \in StderrTexts : do_remove(proc, out, err)
    /\ UNCHANGED <<supVars, cfgVars, scanVars, detVars, winVars>>

DoUpgrade ==
    /\ \E proc \in SpawnFailures \cup {"TimeoutExpired", "exit 1", "exit 0"},
          out \in StdoutTexts, err \in StderrTexts : do_upgrade(proc, out, err)
    /\ UNCHANGED <<supVars, cfgVars, scanVars, detVars, winVars>>

BulkCallback ==
    /\ bulk_callback
    /\ UNCHANGED <<supVars, cfgVars, fsVars, scanVars, detVars, winVars>>

NextBulk ==
    \/ StartBulk
    \/ DoRemove
    \/ DoUpgrade
    \/ BulkCallback

SpecBulk == InitBulk /\ [][NextBulk]_vars

\* The main window: PyEnvyApp.__init__ has submitted the first refresh; the user
\* selects environments and packages, installs and deletes; the workers run and
\* the control thread delivers their signals.
InitWindow ==
    /\ CfgInit
    /\ FsInit
    /\ ScanInit
    /\ bulk = NoBulk
    /\ interpreters = [files |-> [p \in Range(InterpreterPaths) |-> Absent],
                       x |-> [t \in Targets |-> TRUE], pyenv_root |-> FALSE]
    /\ python_installs = <<>>
    /\ events = <<>>
    /\ cblog = <<>>
    /\ LET built == [tasks |-> [id \in WindowTaskIds |-> NoTask],
                     thread |-> [h \in WindowHandles |-> Unborn],
                     status |-> [msg |-> "Ready", busy |-> FALSE],
                     job |-> [h \in WindowHandles |-> NoJob],
                     selected_venv |-> None, act_delete |-> FALSE,
                     all_packages |-> <<>>]
           w == refresh_venvs_submitted(built) IN
       /\ tasks = w.tasks
       /\ thread = w.thread
       /\ status = w.status
       /\ job = w.job
       /\ selected_venv = w.selected_venv
       /\ act_delete = w.act_delete
       /\ all_packages = w.all_packages

WindowIdle == UNCHANGED <<cfgVars, fsVars, scanVars, bulk, detVars>>

SelectVenv ==
    /\ free(Window) # {}
    /\ \E row \in WindowVenvs \cup {None} : becomes(on_venv_selected(Window, row))
    /\ UNCHANGED <<events, cblog>>
    /\ WindowIdle

SelectPackage ==
    /\ all_packages # <<>>
    /\ becomes(on_package_selected(Window))
    /\ UNCHANGED <<events, cblog>>
    /\ WindowIdle

ClickInstall ==
    /\ free(Window) # {}
    /\ becomes(install_package_clicked(Window))
    /\ UNCHANGED <<events, cblog>>
    /\ WindowIdle

ClickDelete ==
    /\ act_delete
    /\ free(Window) # {}
    /\ becomes(delete_selected_venv(Window))
    /\ UNCHANGED <<events, cblog>>
    /\ WindowIdle

WindowWorkerEmit ==
    /\ \E h \in WindowHandles, sig \in {"finished", "error"} : BackgroundTask_run(h, sig)
    /\ UNCHANGED <<cfgVars, fsVars, scanVars, appVars>>

WindowWorkerExit ==
    /\ \E h \in WindowHandles : thread_exit(h)
    /\ UNCHANGED <<cfgVars, fsVars, scanVars, appVars>>

\* The event loop calls the slot of the oldest queued signal; a slot whose
\* callback submits a task needs a handle for it.
WindowDeliver ==
    /\ events # <<>>
    /\ LET e == Head(events)
           submits == /\ e.sig = "finished"
                      /\ \/ job[e.task].op = "delete"
                         \/ job[e.task].op = "install" /\ selected_venv # None IN
       /\ submits => free(Window) # {}
       /\ becomes(slot(Window, e.task, e.sig))
       /\ IF e.sig = "finished" /\ job[e.task].op = "delete"
          THEN remove_managed_venv(job[e.task].venv_path)
          ELSE UNCHANGED cfgVars
    /\ events' = Tail(events)
    /\ UNCHANGED <<cblog, fsVars, scanVars, bulk, detVars>>

NextWindow ==
    \/ SelectVenv
    \/ SelectPackage
    \/ ClickInstall
    \/ ClickDelete
    \/ WindowWorkerEmit
    \/ WindowWorkerExit
    \/ WindowDeliver

SpecWindow == InitWindow /\ [][NextWindow]_vars

\* Detection over any interpreter files: each path absent or resolving to either
\* target, its probe ending in any way, each target executable or not.
InitDetect ==
    /\ SupInit
    /\ CfgInit
    /\ FsInit
    /\ ScanInit
    /\ bulk = NoBulk
    /\ selected_venv = None
    /\ act_delete = FALSE
    /\ all_packages = <<>>
    /\ job = [h \in Handles |-> NoJob]
    /\ \E files \in [Range(InterpreterPaths) ->
                        {Absent} \cup [present : {TRUE}, target : Targets,
                                       probe : ProbeOutcomes]],
          x \in [Targets -> BOOLEAN], pyenv_root \in BOOLEAN :
           /\ files[PyenvPath].present => pyenv_root
           /\ interpreters = [files |-> files, x |-> x, pyenv_root |-> pyenv_root]
    /\ python_installs = <<>>

DetectPythons ==
    /\ on_pythons_detected
    /\ UNCHANGED <<supVars, cfgVars, fsVars, scanVars, bulk, winVars>>

NextDetect == DetectPythons

SpecDetect == InitDetect /\ [][NextDetect]_vars

\* A refresh over any of the discovery's file systems, roots and depths, with
\* nothing registered.
InitDiscover ==
    /\ SupInit
    /\ CfgInit
    /\ AppInit
    /\ call = NoCall
    /\ \E shape \in DiscoverShapes : fs = file_system(shape)
    /\ scan_directories \in DiscoverRoots
    /\ scan_max_depth \in 0..MaxScanDepth
    /\ listing = "ascending"
    /\ loaded = <<>>
    /\ discovered = <<>>
    /\ entered = <<>>
    /\ all_venvs = <<>>

RefreshVenvs ==
    /\ refresh_venvs
    /\ UNCHANGED <<supVars, cfgVars, fsVars, appVars>>

NextScan == RefreshVenvs

SpecDiscover == InitDiscover /\ [][NextScan]_vars

\* A refresh over any of the merge's file systems and registries.
InitRefresh ==
    /\ SupInit
    /\ AppInit
    /\ cfgOp = [op |-> "none", arg |-> <<>>]
    /\ managed_venvs \in ManagedLists
    /\ call = NoCall
    /\ \E shape \in RefreshShapes : fs = file_system(shape)
    /\ scan_directories \in {<< <<SEP, "r">> >>, << <<SEP, "L">>, <<"~">> >>}
    /\ scan_max_depth = 3
    /\ listing \in {"ascending", "descending"}
    /\ loaded = <<>>
    /\ discovered = <<>>
    /\ entered = <<>>
    /\ all_venvs = <<>>

SpecRefresh == InitRefresh /\ [][NextScan]_vars

\* -------------------------------------------- discovery and merge claims

\* The canonical path of a descriptor.
Canonical(v) == realpath(v.path)

\* The provenances of a registered environment.
ManagedSources == {"managed", "managed (missing)"}

\* C4: whenever a descriptor load_managed_venvs returned and a descriptor
\* discover_venvs returned have one canonical path, the merged list holds a
\* descriptor of managed provenance for that path and none of provenance
\* "discovered".
C4_ManagedTakesPrecedence ==
    \A i \in 1..Len(loaded), j \in 1..Len(discovered) :
        Canonical(loaded[i]) = Canonical(discovered[j]) =>
            /\ \E k \in 1..Len(all_venvs) :
                   /\ Canonical(all_venvs[k]) = Canonical(loaded[i])
                   /\ all_venvs[k].source \in ManagedSources
            /\ \A k \in 1..Len(all_venvs) :
                   Canonical(all_venvs[k]) = Canonical(loaded[i]) =>
                       all_venvs[k].source # "discovered"

\* C4's case: a registered path and a discovered directory spelled differently
\* resolve to one canonical path, and the merged list holds other, discovered
\* descriptors as well.
C4_Witness ==
    /\ \E i \in 1..Len(loaded), j \in 1..Len(discovered) :
           /\ Canonical(loaded[i]) = Canonical(discovered[j])
           /\ loaded[i].path # discovered[j].path
    /\ \E k \in 1..Len(all_venvs) : all_venvs[k].source = "discovered"

\* C5: the merged list holds exactly the canonical paths of the managed and the
\* discovered results, each once, and is ordered by lower-cased name.
C5_OnePerCanonicalPathSorted ==
    /\ {Canonical(all_venvs[k]) : k \in 1..Len(all_venvs)}
           = {Canonical(loaded[i]) : i \in 1..Len(loaded)}
               \cup {Canonical(discovered[j]) : j \in 1..Len(discovered)}
    /\ \A k, l \in 1..Len(all_venvs) :
           k # l => Canonical(all_venvs[k]) # Canonical(all_venvs[l])
    /\ \A k, l \in 1..Len(all_venvs) :
           k < l => str_index(lower(all_venvs[k].name)) <= str_index(lower(all_venvs[l].name))

\* C5's case: the merged list holds two environments of one name at different
\* canonical paths, and a name with an upper-case letter behind a lower-case
\* name that sorts after it as written.
C5_Witness ==
    /\ \E k, l \in 1..Len(all_venvs) :
           /\ k # l
           /\ all_venvs[k].name = all_venvs[l].name
           /\ Canonical(all_venvs[k]) # Canonical(all_venvs[l])
    /\ \E k, l \in 1..Len(all_venvs) :
           k < l /\ all_venvs[k].name = "a" /\ all_venvs[l].name = "B"

\* How many directory levels dirpath lies below base_dir.
LevelsBelow(base_dir, dirpath) ==
    Len(split_comps(dirpath)) - Len(split_comps(base_dir))

\* The names of the directories from base_dir (excluded) down to dirpath.
NamesBelow(base_dir, dirpath) ==
    LET cs == split_comps(dirpath) IN
    {cs[i] : i \in (Len(split_comps(base_dir)) + 1)..Len(cs)}

\* C6: every descriptor discover returns was found in a directory at most
\* maxDepth levels below the root it was reached from, however the root is
\* written.
C6_DepthBound ==
    /\ \A k \in 1..Len(entered) :
           entered[k].found =>
               LevelsBelow(entered[k].base_dir, entered[k].dirpath) <= scan_max_depth
    /\ \A i \in 1..Len(discovered) :
           \E k \in 1..Len(entered) :
               entered[k].found /\ abspath(entered[k].dirpath) = discovered[i].path

\* C6's case: with a root written with a trailing separator, a descriptor was
\* returned for a directory exactly maxDepth levels below it.
C6_Witness ==
    \E k \in 1..Len(entered) :
        /\ entered[k].found
        /\ Last(entered[k].base_dir) = SEP
        /\ scan_max_depth >= 1
        /\ LevelsBelow(entered[k].base_dir, entered[k].dirpath) = scan_max_depth

\* A name the traversal must not enter: denylisted or hidden, and neither .venv
\* nor .env.
Excluded(name) ==
    (name \in SKIP_DIRS \/ startswith_dot(name)) /\ name \notin {".venv", ".env"}

\* The depth of a yielded directory: the separators of its path behind base_dir.
DepthOf(e) ==
    count_sep(SubSeq(e.dirpath, Len(e.base_dir) + 1, Len(e.dirpath)))

\* The directory dirpath holds a regular file pyvenv.cfg.
HoldsMetadataFile(dirpath) ==
    LET at == resolve_comps(<<>>, split_comps(abspath(dirpath)) \o <<"pyvenv.cfg">>) IN
    at \in DOMAIN fs /\ fs[at].kind = "file"

\* The subdirectories of dirpath named .venv or .env, as paths.
VenvSubdirs(dirpath) ==
    {join(dirpath, <<n>>) : n \in {n \in {".venv", ".env"} : isdir(join(dirpath, <<n>>))}}

\* The traversal from base_dir yielded the directory sub.
Entered(base_dir, sub) ==
    \E k \in 1..Len(entered) :
        entered[k].base_dir = base_dir /\ entered[k].dirpath = sub

\* No directory the traversal yields below a root has an excluded name, and no
\* returned descriptor has one among its path components below its root.
C7_NeverEntersExcluded ==
    /\ \A k \in 1..Len(entered) :
           entered[k].dirpath # entered[k].base_dir =>
               ~Excluded(basename(entered[k].dirpath))
    /\ \A k \in 1..Len(entered) :
           entered[k].found =>
               \A n \in NamesBelow(entered[k].base_dir, entered[k].dirpath) : ~Excluded(n)

\* A subdirectory named .venv or .env of the yielded directory e is entered, and
\* if it is below the depth bound and an environment, a descriptor for its
\* canonical path is returned.
VenvSubdirsEntered(e) ==
    \A sub \in VenvSubdirs(e.dirpath) :
        /\ Entered(e.base_dir, sub)
        /\ (/\ DepthOf([e EXCEPT !.dirpath = sub]) < scan_max_depth
            /\ parse_pyvenv_cfg(sub) # {})
           => \E i \in 1..Len(discovered) : Canonical(discovered[i]) = realpath(sub)

\* C7 as amended: the traversal never enters a denylisted or hidden subdirectory
\* and returns no descriptor with one below its root; the subdirectories named
\* .venv or .env of every directory it reads below the depth bound that does not
\* itself hold the metadata file are entered, and an environment rooted there
\* below the depth bound is returned.
C7_SkipRulesBelowLeaves ==
    /\ C7_NeverEntersExcluded
    /\ \A k \in 1..Len(entered) :
           (DepthOf(entered[k]) < scan_max_depth /\ ~HoldsMetadataFile(entered[k].dirpath))
               => VenvSubdirsEntered(entered[k])

\* C7's case: below a plain directory one level down, a directory named .env
\* was entered and returned as an environment, while a denylisted directory and
\* a hidden one beside the root were left out.
C7_Witness ==
    /\ \E k \in 1..Len(entered) :
           /\ entered[k].found
           /\ basename(entered[k].dirpath) = ".env"
           /\ LevelsBelow(entered[k].base_dir, entered[k].dirpath) = 2
    /\ \E k \in 1..Len(entered) :
           /\ entered[k].dirpath = entered[k].base_dir
           /\ isdir(join(entered[k].dirpath, <<".git">>))
           /\ isdir(join(entered[k].dirpath, <<".hid">>))
           /\ DepthOf(entered[k]) < scan_max_depth

\* C7 as stated: the traversal never enters a denylisted or hidden subdirectory,
\* and the subdirectories named .venv or .env of every directory it reads below
\* the depth bound are entered, an environment rooted there being returned.
C7_VenvDirsAlwaysEntered ==
    /\ C7_NeverEntersExcluded
    /\ \A k \in 1..Len(entered) :
           DepthOf(entered[k]) < scan_max_depth => VenvSubdirsEntered(entered[k])

\* ------------------------------------------- lifecycle and package claims

\* The directory at path has an entry pyvenv.cfg, links on the way followed.
MetadataFilePresent(path) ==
    LET at == resolve_comps(<<>>, split_comps(abspath(path)) \o <<"pyvenv.cfg">>) IN
    at \in DOMAIN fs

\* C1: a call of delete(path) made while the metadata file is absent at path
\* fails with the safety-check error and leaves the file system as it was, and a
\* call of delete that changes the file system was made while path contained the
\* metadata file.
C1_DeleteGuard ==
    [][call'.op = "delete" =>
           /\ ~MetadataFilePresent(call'.path) =>
                  call'.raised = SafetyCheckFailed /\ fs' = fs
           /\ fs' # fs => MetadataFilePresent(call'.path)]_vars

\* C1's case: delete has been called on an existing directory without the
\* metadata file and has failed the safety check.
C1_Witness ==
    /\ call.op = "delete"
    /\ call.raised = SafetyCheckFailed
    /\ isdir(call.path)
    /\ ~MetadataFilePresent(call.path)

\* The environment at path has nothing at bin/python.
InterpreterMissing(path) ==
    LET at == resolve_comps(<<>>, split_comps(abspath(path)) \o <<"bin", "python">>) IN
    at \notin DOMAIN fs

\* C9 as stated: a package operation called on an environment whose interpreter
\* is missing fails with the interpreter-unavailable error without having tried
\* to run the interpreter.
C9_FailsFastWithoutInterpreter ==
    call.op \in {"list", "install", "remove", "upgrade"} /\ InterpreterMissing(call.path) =>
        call.raised = "VenvError: interpreter unavailable" /\ ~call.spawned

\* C10 as stated: list(envPath) never raises, and returns the empty sequence
\* whenever the listing process failed to start, timed out, exited non-zero or
\* printed anything but a JSON array of {name, version} records.
C10_ListNeverRaises ==
    call.op = "list" =>
        /\ call.raised = "none"
        /\ call.proc \notin {"[]", "[{name, version}]"} => call.ret = <<>>

\* ------------------------------------------------------- the supervisor

\* How often the callback cb of task h has been invoked.
Invocations(h, cb) ==
    Cardinality({i \in 1..Len(cblog) : cblog[i] = [task |-> h, cb |-> cb]})

\* The signal of task h has been emitted and the control thread has run its slot.
Delivered(h) ==
    /\ thread[h].st \in {"emitted", "finished"}
    /\ \A i \in 1..Len(events) : events[i].task # h

\* C2 as amended: no task ever has more than one terminal callback invoked, and
\* none before its signal is delivered. Once it is delivered, a task whose
\* operation returned has had on_success invoked once and on_error never; a task
\* whose operation raised and that was submitted with on_error has had on_error
\* invoked once and on_success never; a task whose operation raised and that was
\* submitted without on_error (detect_pythons) has had neither invoked.
C2_TerminalCallbacks ==
    \A h \in Submitted :
        /\ Invocations(h, "on_success") + Invocations(h, "on_error") <= 1
        /\ ~Delivered(h) =>
               Invocations(h, "on_success") + Invocations(h, "on_error") = 0
        /\ Delivered(h) /\ thread[h].sig = "finished" =>
               Invocations(h, "on_success") = 1 /\ Invocations(h, "on_error") = 0
        /\ Delivered(h) /\ thread[h].sig = "error" /\ thread[h].on_error =>
               Invocations(h, "on_error") = 1 /\ Invocations(h, "on_success") = 0
        /\ Delivered(h) /\ thread[h].sig = "error" /\ ~thread[h].on_error =>
               Invocations(h, "on_error") = 0 /\ Invocations(h, "on_success") = 0

\* C2's case: two tasks submitted under one id have both been delivered, one
\* having returned and one having raised, and a task without on_error has raised
\* and been delivered.
C2_Witness ==
    \E a, b, c \in Submitted :
        /\ a # b /\ thread[a].id = thread[b].id
        /\ Delivered(a) /\ thread[a].sig = "finished"
        /\ Delivered(b) /\ thread[b].sig = "error" /\ thread[b].on_error
        /\ Delivered(c) /\ thread[c].sig = "error" /\ ~thread[c].on_error

\* C2 as stated: every task whose completion has been delivered has had exactly
\* one of on_success and on_error invoked, exactly once, and a task whose
\* operation raised has had an error callback invoked.
C2_ExactlyOneCallback ==
    \A h \in Submitted :
        /\ Invocations(h, "on_success") + Invocations(h, "on_error") <= 1
        /\ Delivered(h) =>
               Invocations(h, "on_success") + Invocations(h, "on_error") = 1
        /\ Delivered(h) /\ thread[h].sig = "error" => Invocations(h, "on_error") = 1

\* C3 as stated: isBusy() is true iff some submitted task has not completed. A
\* task whose operation is still executing has not completed, so any_running must
\* be true; and any_running is true only while some task's completion has not
\* yet been delivered.
C3_BusyIffIncomplete ==
    /\ (\E h \in Submitted : thread[h].st = "running") => any_running
    /\ any_running => \E h \in Submitted : ~Delivered(h)

\* ---------------------------------------------------------- the registry

\* C8 as stated: no two entries of the registry resolve to one canonical path,
\* and after remove(p) no entry resolves to the canonical path of p.
C8_RegistryCanonical ==
    /\ \A i, j \in 1..Len(managed_venvs) :
           i # j => realpath(managed_venvs[i]) # realpath(managed_venvs[j])
    /\ cfgOp.op = "remove" =>
           \A i \in 1..Len(managed_venvs) :
               realpath(managed_venvs[i]) # realpath(cfgOp.arg)

\* ------------------------------------------------------- typed failures

\* The error each operation raises for a failure of its tool.
TypedError(op) ==
    CASE op = "create" -> "VenvError: Failed to create venv"
      [] op = "install" -> "VenvError: pip install failed"
      [] op = "remove" -> "VenvError: pip uninstall failed"
      [] op = "upgrade" -> "VenvError: pip upgrade failed"
      [] OTHER -> "none"

\* C11 as stated: a call of create, install, remove or upgrade whose tool exited
\* non-zero or timed out raised the operation's own error, and that error
\* carries what the tool wrote to stdout followed by what it wrote to stderr.
C11_TypedErrorCarriesOutput ==
    (call.op \in {"create", "install", "remove", "upgrade"}
         /\ call.proc \in {"exit 1", "TimeoutExpired"}) =>
        /\ call.raised = TypedError(call.op)
        /\ call.text = call.stdout \o call.stderr

\* ------------------------------------------------------ bulk operations

\* The invocations made so far are for the first names of the selection, in its
\* order, one each.
InSelectionOrder ==
    /\ Len(bulk.invoked) <= Len(bulk.names)
    /\ \A j \in 1..Len(bulk.invoked) : bulk.invoked[j].name = bulk.names[j]

\* C12: a bulk removal or upgrade invokes the tool once per package in the order
\* of the selection; every invocation before the last made has succeeded and its
\* package stays as the tool left it; once an invocation has failed, it is the
\* last one made, the packages behind it are as they were, and the error
\* callback is given that invocation's failure; the success callback is invoked
\* only when every package has been applied.
C12_BulkStopsAtFirstFailure ==
    /\ InSelectionOrder
    /\ \A j \in 1..(Len(bulk.invoked) - 1) :
           /\ bulk.invoked[j].raised = "none"
           /\ bulk.env[bulk.names[j]] = applied(bulk.op)
    /\ \A j \in (Len(bulk.invoked) + 1)..Len(bulk.names) :
           bulk.env[bulk.names[j]] = "installed"
    /\ \A j \in 1..Len(bulk.invoked) :
           bulk.invoked[j].raised # "none" =>
               /\ j = Len(bulk.invoked)
               /\ bulk.st = "raised"
               /\ bulk.env[bulk.names[j]] = "installed"
               /\ bulk.cb # "on_success"
               /\ bulk.cb = "on_error" =>
                      /\ bulk.arg.name = bulk.names[j]
                      /\ bulk.arg.raised = bulk.invoked[j].raised
    /\ bulk.cb = "on_success" =>
           /\ Len(bulk.invoked) = Len(bulk.names)
           /\ \A j \in 1..Len(bulk.names) : bulk.env[bulk.names[j]] = applied(bulk.op)
    /\ bulk.cb = "on_error" => bulk.st = "raised"

\* C12's case: of three selected packages the first was removed, the tool exited
\* non-zero for the second, and the error callback has been invoked with the
\* third never tried.
C12_Witness ==
    /\ bulk.op = "remove"
    /\ Len(bulk.names) = 3
    /\ Len(bulk.invoked) = 2
    /\ bulk.invoked[2].proc = "exit 1"
    /\ bulk.env[bulk.names[1]] = "removed"
    /\ bulk.cb = "on_error"

\* ------------------------------------------------- same-id submissions

\* Two tasks submitted under one id with both callbacks, a having returned and b
\* having raised, and the completions of both delivered.
BothCompleted(a, b) ==
    /\ a # b
    /\ thread[a].id = thread[b].id
    /\ thread[a].on_error /\ thread[b].on_error
    /\ Delivered(a) /\ thread[a].sig = "finished"
    /\ Delivered(b) /\ thread[b].sig = "error"

\* The positions in cblog of the callbacks invoked for the task h.
CallbackAt(h) == {i \in 1..Len(cblog) : cblog[i].task = h}

\* C13: of two tasks submitted under one id with both callbacks, one returning
\* and one raising, once both completions are delivered on_success has been
\* invoked exactly once for the one and on_error exactly once for the other and
\* nothing else for either, and the registry entry of the id is neither of them;
\* a callback is invoked only for the oldest undelivered completion, so the two
\* fire in completion order; and submitting a task leaves every running task
\* running.
C13_SameIdBothCallbacks ==
    /\ [](\A a, b \in Submitted :
              BothCompleted(a, b) =>
                  /\ Invocations(a, "on_success") = 1 /\ Invocations(a, "on_error") = 0
                  /\ Invocations(b, "on_error") = 1 /\ Invocations(b, "on_success") = 0
                  /\ tasks[thread[a].id] \notin {a, b})
    /\ [][/\ cblog' # cblog =>
                 /\ events # <<>>
                 /\ cblog' = Append(cblog, [task |-> Head(events).task,
                                            cb |-> IF Head(events).sig = "finished"
                                                   THEN "on_success" ELSE "on_error"])
                 /\ events' = Tail(events)
           /\ \A h \in Submitted :
                 (thread[h].st = "running" /\ thread'[h].st # "running") =>
                     /\ thread'[h].st = "emitted"
                     /\ events' = Append(events, [task |-> h, sig |-> thread'[h].sig])]_vars

\* C13's case: the task a was submitted under the id of the earlier task b and
\* returned, its success callback coming before the error callback of b: b was
\* running all the while. Both completions are delivered and the registry has no
\* entry for the id.
C13_Witness ==
    \E a, b \in Submitted :
        /\ BothCompleted(a, b)
        /\ b < a
        /\ \A h \in Submitted : h \in {a, b}
        /\ \E i \in CallbackAt(a), j \in CallbackAt(b) : i < j
        /\ tasks[thread[a].id] = NoTask

\* ------------------------------------------------- registered environments

\* C14 as stated: load_managed_venvs returns one descriptor per registered path,
\* in order: of provenance "managed" when the path is a directory holding the
\* metadata file, and otherwise the placeholder, not valid and of provenance
\* "managed (missing)"; no registered path is left out.
C14_NoRegisteredPathDropped ==
    [][/\ Len(loaded') = Len(managed_venvs)
       /\ \A i \in 1..Len(managed_venvs) :
              i <= Len(loaded') =>
                  IF isdir(managed_venvs[i]) /\ MetadataFilePresent(managed_venvs[i])
                  THEN /\ loaded'[i].source = "managed"
                       /\ loaded'[i].path = abspath(managed_venvs[i])
                  ELSE /\ loaded'[i].source = "managed (missing)"
                       /\ ~loaded'[i].is_valid
                       /\ loaded'[i].path = managed_venvs[i]]_vars

\* ------------------------------------------------- interpreter detection

\* The scan-pattern order of the candidate paths: /usr/bin/python3, the Homebrew
\* interpreters by name, then the pyenv one.
ScanOrder ==
    << "/usr/bin/python3", "/opt/homebrew/bin/python3.11",
       "/opt/homebrew/bin/python3.12", "/r/.pyenv/versions/3.12/bin/python3" >>

\* The candidate at position i of the scan order exists, is executable and
\* answers the version query with exit status 0.
Answers(i) ==
    LET f == interpreters.files[ScanOrder[i]] IN
    f.present /\ interpreters.x[f.target] /\ f.probe = "exit 0"

\* The first candidate in scan order that resolves to target and answers.
FirstAnswering(target) ==
    ScanOrder[CHOOSE i \in 1..Len(ScanOrder) :
                  /\ Answers(i) /\ interpreters.files[ScanOrder[i]].target = target
                  /\ \A j \in 1..(i - 1) :
                         ~(Answers(j) /\ interpreters.files[ScanOrder[j]].target = target)]

\* C15: what detect returns has no two installs resolving to one target, and its
\* installs are, for each target some candidate answers for, the first candidate
\* in scan order that resolves to it and answers, whatever candidates before it
\* failed their probe.
C15_OneInstallPerTarget ==
    [][/\ \A i, j \in 1..Len(python_installs') :
              i # j => interpreters.files[python_installs'[i].path].target
                           # interpreters.files[python_installs'[j].path].target
       /\ {python_installs'[i].path : i \in 1..Len(python_installs')}
              = {FirstAnswering(t) :
                     t \in {t \in Targets :
                                \E i \in 1..Len(ScanOrder) :
                                    Answers(i) /\ interpreters.files[ScanOrder[i]].target = t}}]_vars

\* C15's case: three candidates resolve to one target; the first in scan order
\* timed out, the second answered and is the one install returned, the third
\* would have answered as well.
C15_Witness ==
    /\ \A i \in 1..3 : interpreters.files[ScanOrder[i]].present
                             /\ interpreters.files[ScanOrder[i]].target = "/T1"
    /\ interpreters.files[ScanOrder[1]].probe = "TimeoutExpired"
    /\ Answers(2) /\ Answers(3)
    /\ Len(python_installs) = 1
    /\ python_installs[1].path = ScanOrder[2]


\* A task has been started and its operation has neither returned nor raised.
InFlight(h) == thread[h].st = "running"

\* The step constructs and starts the task h with the delete operation.
SubmitsDelete(h) ==
    /\ thread[h].st = "unborn"
    /\ thread'[h].st = "running"
    /\ job'[h].op = "delete"

\* C16: the delete action is disabled in every state where a task is running,
\* and no step submits the delete task while another task is in flight.
C16_DeleteOnlyWhenIdle ==
    /\ []((\E h \in DOMAIN thread : InFlight(h)) => ~act_delete)
    /\ [][\A h \in DOMAIN thread :
              SubmitsDelete(h) => ~(\E g \in DOMAIN thread : InFlight(g))]_vars

\* C19: once every submitted task has completed and its signal is delivered, the
\* package list held for a selected environment is what the listing of that
\* environment returns, or empty where its listing failed.
C19_ListIsOfSelectedVenv ==
    (selected_venv # None /\ \A h \in Submitted : Delivered(h)) =>
        all_packages \in {packages_of(selected_venv), <<>>}


\* A terminal callback of the task h has been invoked.
CalledBack(h) == \E i \in 1..Len(cblog) : cblog[i].task = h

\* The registry is empty and any_running() is false.
Quiet == (\A id \in DOMAIN tasks : tasks[id] = NoTask) /\ ~any_running

\* C17 as stated: every submitted task eventually has its terminal callback
\* invoked, and eventually the registry is empty and any_running() false for
\* good.
C17_EveryTaskCallsBack ==
    /\ \A h \in Handles : (thread[h].st = "running") ~> CalledBack(h)
    /\ <>[]Quiet

\* C17 as amended: every submitted task eventually completes and its signal is
\* delivered, with its terminal callback invoked unless it failed and was
\* submitted without on_error; and eventually the registry is empty and
\* any_running() false for good.
C17_EveryTaskCompletes ==
    /\ \A h \in Handles :
           (thread[h].st = "running") ~>
               /\ thread[h].st = "finished"
               /\ Delivered(h)
               /\ CalledBack(h) \/ (thread[h].sig = "error" /\ ~thread[h].on_error)
    /\ <>[]Quiet

\* Two tasks were submitted, both have completed and been delivered, one of
\* them failed without on_error and had no callback, and the supervisor is quiet.
C17_Witness ==
    /\ Cardinality(Submitted) = MaxLiveTasks
    /\ \A h \in Submitted : thread[h].st = "finished" /\ Delivered(h)
    /\ \E h \in Submitted : thread[h].sig = "error" /\ ~thread[h].on_error /\ ~CalledBack(h)
    /\ \E h \in Submitted : CalledBack(h)
    /\ Quiet

\* The status observer has been notified at least once: a task was submitted
\* with a status message, or a signal was delivered.
Notified ==
    \E h \in Submitted : PassesStatusMsg(thread[h].id) \/ Delivered(h)

\* C18: whenever the status observer's latest notification is idle, no
\* submitted task is in flight.
C18_IdleMeansNothingInFlight ==
    (Notified /\ ~status.busy) => \A h \in Submitted : ~InFlight(h)

====
